---- MODULE Spec2Model ----
(***************************************************************************)
(* Session manager of the Sales-CRM front end (hooks/useAuth):             *)
(* AuthProvider's React state, the persisted "auth" record, and the        *)
(* operations login, logout, refreshToken, refreshUser and fetchWithAuth.  *)
(*                                                                         *)
(* Every asynchronous operation is a call in a slot of `calls`.  A call    *)
(* suspends at each network fetch; one action is the code that runs from   *)
(* one suspension to the next (the browser runs it without interleaving).  *)
(* The functions of a render close over that render's user, token and      *)
(* refreshTokenValue: a call keeps the values it was started with in `cl`, *)
(* while setUser/setToken/setRefreshTokenValue change the provider state   *)
(* that the next render (and so the next call) sees.                       *)
(*                                                                         *)
(* The lead pagination of hooks/useDataService (fetchLeads, fetchAllLeads) *)
(* is modelled next to it, with the answers of fetchWithAuth as its input. *)
(***************************************************************************)
EXTENDS Integers, Sequences, FiniteSets, TLC

\* ------------------------------------------------------------------ bounds
MaxCalls == 2
MaxOps == 2
\* the largest maxPages passed to fetchAllLeads
MaxCeiling == 3
\* the largest of the small page sizes passed to fetchLeads
MaxTake == 3
\* the load() calls one effect starts (the first one and the interval's)
MaxLoads == 2
\* the follow-up page requests of one load() that are answered
MaxFollowUps == 11
\* the leads of a visa-status breakdown
MaxLeads == 2

\* ------------------------------------------------------- JavaScript values
NULL == "null"
UNDEF == "undefined"
EMPTY == ""
NoAuth == "no-authorization-header"

\* a falsy token value: null, undefined or the empty string
Falsy(v) == v \in {NULL, UNDEF, EMPTY}
\* a || b
OrElse(a, b) == IF Falsy(a) THEN b ELSE a
\* a ?? b
Nullish(a, b) == IF a \in {NULL, UNDEF} THEN b ELSE a

\* strings the code inspects are sequences of characters
Uppers ==
  <<"A", "B", "C", "D", "E", "F", "G", "H", "I", "J", "K", "L", "M">>
    \o <<"N", "O", "P", "Q", "R", "S", "T", "U", "V", "W", "X", "Y", "Z">>
Lowers ==
  <<"a", "b", "c", "d", "e", "f", "g", "h", "i", "j", "k", "l", "m">>
    \o <<"n", "o", "p", "q", "r", "s", "t", "u", "v", "w", "x", "y", "z">>
LowerChar(ch) ==
  IF \E k \in 1..Len(Uppers) : Uppers[k] = ch
    THEN Lowers[CHOOSE k \in 1..Len(Uppers) : Uppers[k] = ch]
    ELSE ch
toLowerCase(s) == [i \in DOMAIN s |-> LowerChar(s[i])]

S_active == <<"a", "c", "t", "i", "v", "e">>
S_ACTIVE == <<"A", "C", "T", "I", "V", "E">>
S_disabled == <<"d", "i", "s", "a", "b", "l", "e", "d">>
S_Disabled == <<"D", "i", "s", "a", "b", "l", "e", "d">>
S_DISABLED == <<"D", "I", "S", "A", "B", "L", "E", "D">>

\* the null user, and user profiles (status is an optional field)
NoUser == [isNull |-> TRUE]
Profile(s) == [userid |-> 1, status |-> s]
ProfileNoStatus == [userid |-> 1]
HasStatus(u) == "status" \in DOMAIN u

\* a response: rejected is a fetch that failed (network error); the body
\* properties that are missing are undefined
Resp(st, u, access, tok, refresh) ==
  [rejected |-> FALSE, status |-> st, user |-> u, accessToken |-> access,
   token |-> tok, refreshToken |-> refresh]
Rejected ==
  [rejected |-> TRUE, status |-> 0, user |-> NoUser, accessToken |-> UNDEF,
   token |-> UNDEF, refreshToken |-> UNDEF]
\* no response yet
NoResp == Resp(0, NoUser, UNDEF, UNDEF, UNDEF)

\* ------------------------------------------------------------------- URLs
\* A URL string is a sequence of segments; an absolute URL starts with an
\* origin.
ApiOrigin == "https://api.example"
PageOrigin == "https://app.example"
Origins == {ApiOrigin, PageOrigin}
IsAbsolute(s) == Len(s) > 0 /\ s[1] \in Origins

\* new URL(s).toString(): a bare origin gets the root path
UrlToString(s) == IF Len(s) = 1 THEN s \o <<"/">> ELSE s

RECURSIVE StripTrailingSlashes(_)
\* rawApiBase.replace(/\/+$/, "")
StripTrailingSlashes(s) ==
  IF Len(s) > 0 /\ s[Len(s)] = "/"
    THEN StripTrailingSlashes(SubSeq(s, 1, Len(s) - 1))
    ELSE s

RECURSIVE StripLeadingSlashes(_)
StripLeadingSlashes(s) ==
  IF Len(s) > 0 /\ s[1] = "/" THEN StripLeadingSlashes(Tail(s)) ELSE s

\* input.replace(/^undefined\/*/, "/")
Sanitize(s) ==
  IF Len(s) > 0 /\ s[1] = "undefined"
    THEN <<"/">> \o StripLeadingSlashes(Tail(s))
    ELSE s

\* VITE_API_BASE_URL of the build; the empty string stands for an unset one
VARIABLE rawApiBase
\* API_BASE_URL; <<>> is undefined (an empty rawApiBase is falsy)
API_BASE_URL == IF Len(rawApiBase) > 0 THEN StripTrailingSlashes(rawApiBase) ELSE <<>>

buildUrl(pathOrUrl) ==
  IF IsAbsolute(pathOrUrl) THEN UrlToString(pathOrUrl)
  ELSE IF Len(API_BASE_URL) = 0 THEN pathOrUrl
  ELSE API_BASE_URL
         \o (IF Len(pathOrUrl) > 0 /\ pathOrUrl[1] = "/" THEN <<>> ELSE <<"/">>)
         \o pathOrUrl

\* resolvedInput of fetchWithAuth for a string input
resolvedInput(input) == buildUrl(Sanitize(input))

\* The URL a request of fetch(s) goes to: the browser resolves a relative
\* string against the page's location (the application is served from the
\* root of PageOrigin).
FetchUrl(s) ==
  IF IsAbsolute(s) THEN UrlToString(s)
  ELSE IF Len(s) > 0 /\ s[1] = "/" THEN <<PageOrigin>> \o s
  ELSE <<PageOrigin, "/">> \o s

LoginUrl == FetchUrl(buildUrl(<<"/", "login">>))
RefreshUrl == FetchUrl(buildUrl(<<"/", "refresh">>))
MeInput == buildUrl(<<"/", "me">>)

\* ------------------------------------------------------ persisted record
\* localStorage "auth": absent, or the parsed JSON object.  JSON.stringify
\* drops the properties whose value is undefined.
NoRecord == [absent |-> TRUE]
\* an item that JSON.parse rejects
Malformed == [malformed |-> TRUE]
Stringify(u, access, refresh) ==
  LET all == [user |-> u, accessToken |-> access, refreshToken |-> refresh]
      keep == {"user"} \cup {f \in {"accessToken", "refreshToken"} : all[f] # UNDEF}
  IN  [f \in keep |-> all[f]]
\* property read of a parsed object; a missing property is undefined
Get(obj, f) == IF f \in DOMAIN obj THEN obj[f] ELSE UNDEF
GetUser(obj) == IF "user" \in DOMAIN obj THEN obj.user ELSE NoUser

\* -------------------------------------------------------------- state
VARIABLES
  user,               \* useState user
  token,              \* useState token (the access token)
  refreshTokenValue,  \* useState refreshTokenValue
  storage,            \* localStorage item "auth"
  loaded,             \* the mount effect has run
  calls,              \* the asynchronous calls, by slot
  nops                \* operations started so far

\* hooks/useDataService: the build flag of lib/mockData, and one call of
\* fetchAllLeads
VARIABLES
  USE_MOCK_DATA,      \* the configuration flag of lib/mockData
  maxPages,           \* fetchAllLeads: its argument
  allLeads,           \* fetchAllLeads: let allLeads
  cursor,             \* fetchAllLeads: let cursor
  pages,              \* fetchAllLeads: let pages
  leadsPc,            \* fetchAllLeads: "idle", "awaiting" (a fetchLeads), "done"
  pageReqs,           \* the options of the fetchLeads calls made
  netReqs,            \* the URLs passed to fetchWithAuth
  pageAnswers,        \* the answers the fetchLeads calls got
  leadsResult         \* how fetchAllLeads settled

\* a dashboard component: its effect, the load() calls it has started and
\* the React state they write
VARIABLES
  component,          \* the component that is mounted
  cancelled,          \* the effect's let cancelled
  loads,              \* the load() calls, in the order they were started
  nloads,             \* load() calls started so far
  dataState,          \* the data state: stats, leads and users, agents, activity
  loading,            \* useState loading
  timers,             \* pending setTimeout(() => setLoading(false))
  toasts,             \* toast() calls made
  filteredLeads,      \* VisaStatusReport: the memo filteredLeads
  visaMap,            \* visaData: const visaMap
  visaPos,            \* visaData: leads the forEach has visited
  visaData            \* the memo visaData, once computed

authVars == <<rawApiBase, user, token, refreshTokenValue, storage, loaded, calls, nops>>
dataVars == <<USE_MOCK_DATA, maxPages, allLeads, cursor, pages, leadsPc, pageReqs,
              netReqs, pageAnswers, leadsResult>>
visaVars == <<filteredLeads, visaMap, visaPos, visaData>>
viewVars == <<component, cancelled, loads, nloads, dataState, loading, timers, toasts, visaVars>>
vars == <<authVars, dataVars, viewVars>>

Slots == 1..MaxCalls
\* slot 0 holds the record of a synchronous handler (the mount effect,
\* logout) for the one state it returns in
SyncSlot == 0
AllSlots == {SyncSlot} \cup Slots

\* the session as one value
Sess == [user |-> user, token |-> token, refreshTokenValue |-> refreshTokenValue,
         storage |-> storage]
SetSess(s) ==
  /\ user' = s.user
  /\ token' = s.token
  /\ refreshTokenValue' = s.refreshTokenValue
  /\ storage' = s.storage
Closure == [user |-> user, token |-> token, refreshTokenValue |-> refreshTokenValue]

NoResult == [kind |-> "none", which |-> "none", status |-> 0]
IdleCall ==
  [op |-> "idle", pc |-> "idle", cl |-> [user |-> NoUser, token |-> NULL, refreshTokenValue |-> NULL],
   input |-> <<>>, retry |-> TRUE, first |-> 0, refreshed |-> "none",
   refreshRes |-> NoResp, res |-> NoResp, reqs |-> <<>>, result |-> NoResult]

\* ------------------------------------------------------------ environment
IsOk(status) == 200 <= status /\ status <= 299

LoginProfiles ==
  {Profile(st) : st \in {S_active, S_ACTIVE, S_disabled, S_Disabled, S_DISABLED}}
    \cup {ProfileNoStatus}
\* GET /me answers with the profile as the backend holds it now
MeProfiles == {Profile(S_disabled)}

\* the answers of POST /login: every profile with one token body, and every
\* token body with one profile
LoginResponses ==
  {Rejected, Resp(401, NoUser, UNDEF, UNDEF, UNDEF)}
    \cup {Resp(200, u, "a1", UNDEF, "r1") : u \in LoginProfiles}
    \cup {Resp(200, Profile(S_active), "a1", "a2", "r1"),
          Resp(200, Profile(S_active), UNDEF, "a2", "r1"),
          Resp(200, Profile(S_active), UNDEF, UNDEF, "r1"),
          Resp(200, Profile(S_active), "a1", UNDEF, UNDEF)}
\* the answers of POST /refresh
RefreshResponses ==
  {Rejected, Resp(401, NoUser, UNDEF, UNDEF, UNDEF)}
    \cup {Resp(200, NoUser, "a2", UNDEF, "r2"),     \* rotated refresh token
          Resp(200, NoUser, "a2", "a1", NULL),       \* no new refresh token
          Resp(200, NoUser, EMPTY, "a1", UNDEF),     \* legacy property token
          Resp(200, NoUser, UNDEF, UNDEF, "r2"),     \* no access token
          Resp(200, NoUser, EMPTY, UNDEF, UNDEF)}
TargetResponses(op) ==
  {Rejected}
    \cup {Resp(st, NoUser, UNDEF, UNDEF, UNDEF) : st \in {401, 500}}
    \cup {Resp(200, u, UNDEF, UNDEF, UNDEF) :
            u \in IF op = "refreshUser" THEN MeProfiles ELSE {NoUser}}

Emails == {<<"A", "b">>}
Inputs ==
  { <<ApiOrigin, "/", "leads">>,      \* absolute URL
    <<ApiOrigin>>,                    \* absolute URL without a path
    <<"/", "leads">>,                 \* relative path
    <<"undefined", "/", "leads">> }   \* `${API_BASE_URL}/leads` with the base unset

\* the calls of fetchWithAuth: every kind of target, and (with the absolute
\* target) both values of retry
FetchArgs ==
  {[input |-> i, retry |-> TRUE] : i \in Inputs}
    \cup {[input |-> <<ApiOrigin, "/", "leads">>, retry |-> FALSE]}
\* the calls of fetchWithAuth that run concurrently in Spec
AbsoluteFetchArgs == {a \in FetchArgs : a.input = <<ApiOrigin, "/", "leads">>}

InitialRecords ==
  { NoRecord,
    [user |-> Profile(S_active), accessToken |-> "a1", refreshToken |-> "r1"] }

Request(url, auth, body) == [url |-> url, auth |-> auth, body |-> body]
\* headers.set("Authorization", `Bearer ${t}`) when t is truthy
Bearer(t) == IF Falsy(t) THEN NoAuth ELSE t

\* a cursor is a number; null and undefined are kept apart from the numbers
NullCursor == -1
UndefCursor == -2
NoLeadsResult == [kind |-> "none", leads |-> <<>>]
\* fetchAllLeads has not been called
NoLeadsCall ==
  /\ maxPages = 0
  /\ allLeads = <<>>
  /\ cursor = NullCursor
  /\ pages = 0
  /\ leadsPc = "idle"
  /\ pageReqs = <<>>
  /\ netReqs = <<>>
  /\ pageAnswers = <<>>
  /\ leadsResult = NoLeadsResult

\* a component's load() calls: none started, no component mounted
LoadIds == 1..MaxLoads
\* the parsed body a load() reads: a bare array or an object with the
\* optional properties items and nextCursor; the items are kept by number
NoBody == [bare |-> FALSE, hasItems |-> FALSE, items |-> 0, nextCursor |-> UndefCursor]
IdleLoad ==
  [pc |-> "idle", allUsers |-> 0, allLeads |-> 0, cursor |-> NullCursor,
   reqs |-> 0, data |-> NoBody]
NoData0 == [by |-> 0, users |-> 0, items |-> 0]
\* no visa-status breakdown is being computed
NoRows == [computed |-> FALSE, rows |-> <<>>]
NoBreakdown ==
  /\ filteredLeads = <<>>
  /\ visaMap = <<>>
  /\ visaPos = 0
  /\ visaData = NoRows
NoComponent ==
  /\ component = "none"
  /\ cancelled = FALSE
  /\ loads = [i \in LoadIds |-> IdleLoad]
  /\ nloads = 0
  /\ dataState = NoData0
  /\ loading = FALSE
  /\ timers = 0
  /\ toasts = 0
  /\ NoBreakdown

\* --------------------------------------------------------------- Init
Init ==
  /\ rawApiBase \in {<<ApiOrigin, "/">>}
  /\ user = NoUser
  /\ token = NULL
  /\ refreshTokenValue = NULL
  /\ storage \in InitialRecords
  /\ loaded = FALSE
  /\ calls = [c \in AllSlots |-> IdleCall]
  /\ nops = 0
  /\ USE_MOCK_DATA = TRUE
  /\ NoLeadsCall
  /\ NoComponent

\* JSON.parse(stored), line 36, throws a SyntaxError
loadThrows(stored) == stored = Malformed

\* a mount effect that reads only the legacy property token
loadLegacyOnly(s) ==
  IF s.storage = NoRecord \/ loadThrows(s.storage) THEN s
  ELSE [s EXCEPT !.user = GetUser(s.storage),
                 !.token = OrElse(Get(s.storage, "token"), NULL),
                 !.refreshTokenValue = OrElse(Get(s.storage, "refreshToken"), NULL)]

\* the mount effect, lines 34-40: the session it leaves
load(s) ==
  IF s.storage = NoRecord \/ loadThrows(s.storage) THEN s
  ELSE [s EXCEPT !.user = GetUser(s.storage),
                 !.token = OrElse(OrElse(Get(s.storage, "accessToken"),
                                         Get(s.storage, "token")), NULL),
                 !.refreshTokenValue = OrElse(Get(s.storage, "refreshToken"), NULL)]

\* ------------------------------------------------- session transformers
\* logout that forgets setUser(null)
logoutKeepsUser(s) ==
  [s EXCEPT !.token = NULL, !.refreshTokenValue = NULL, !.storage = NoRecord]

\* logout that forgets localStorage.removeItem
logoutKeepsRecord(s) ==
  [s EXCEPT !.user = NoUser, !.token = NULL, !.refreshTokenValue = NULL]

logout(s) ==
  [s EXCEPT !.user = NoUser, !.token = NULL, !.refreshTokenValue = NULL,
            !.storage = NoRecord]

\* login that compares the status with "disabled" as spelled
loginOutcomeExactCase(res) ==
  IF res.rejected THEN "NetworkError"
  ELSE IF ~IsOk(res.status) THEN "InvalidCredentials"
  ELSE IF HasStatus(res.user) /\ res.user.status = S_disabled THEN "AccountDisabled"
  ELSE "resolved"

\* login, lines 69-75: how the call ends
loginOutcome(res) ==
  IF res.rejected THEN "NetworkError"
  ELSE IF ~IsOk(res.status) THEN "InvalidCredentials"
  ELSE IF HasStatus(res.user) /\ Len(res.user.status) > 0
          /\ toLowerCase(res.user.status) # S_active THEN "AccountDisabled"
  ELSE "resolved"

\* login that prefers the legacy property token
loginStoreLegacyFirst(s, data) ==
  LET newAccess == OrElse(data.token, data.accessToken)
  IN  [s EXCEPT !.user = data.user, !.token = newAccess,
                !.refreshTokenValue = data.refreshToken,
                !.storage = Stringify(data.user, newAccess, data.refreshToken)]

\* login, lines 76-83
loginStore(s, data) ==
  LET newAccess == OrElse(data.accessToken, data.token)
  IN  [s EXCEPT !.user = data.user, !.token = newAccess,
                !.refreshTokenValue = data.refreshToken,
                !.storage = Stringify(data.user, newAccess, data.refreshToken)]

\* refreshToken, lines 178-181: the response yields a new access token
refreshTokenOk(res) ==
  /\ ~res.rejected
  /\ IsOk(res.status)
  /\ ~Falsy(OrElse(res.accessToken, res.token))

\* a refreshToken that stores whatever refresh token the answer carries
refreshTokenStoreOverwrite(s, cl, data) ==
  LET newAccess == OrElse(data.accessToken, data.token)
  IN  [s EXCEPT !.token = newAccess, !.refreshTokenValue = data.refreshToken,
                !.storage = Stringify(cl.user, newAccess, data.refreshToken)]

\* refreshToken, lines 182-187, with the closure cl of the call
refreshTokenStore(s, cl, data) ==
  LET newAccess == OrElse(data.accessToken, data.token)
      newRefresh == Nullish(data.refreshToken, cl.refreshTokenValue)
  IN  [s EXCEPT !.token = newAccess, !.refreshTokenValue = newRefresh,
                !.storage = Stringify(cl.user, newAccess, newRefresh)]

\* refreshToken that logs out when it fails
refreshTokenApplyOrLogout(s, cl, res) ==
  IF refreshTokenOk(res) THEN refreshTokenStore(s, cl, res) ELSE logout(s)

\* refreshToken after its fetch settled
refreshTokenApply(s, cl, res) ==
  IF refreshTokenOk(res) THEN refreshTokenStore(s, cl, res) ELSE s

\* refreshUser, lines 197-206, on the response res of its fetchWithAuth
refreshUserApply(s, cl, res) ==
  IF IsOk(res.status)
    THEN LET prev == IF s.storage = NoRecord THEN [x \in {} |-> UNDEF] ELSE s.storage
         IN  [s EXCEPT !.user = res.user,
                       !.storage = Stringify(res.user,
                                             OrElse(Get(prev, "accessToken"), cl.token),
                                             cl.refreshTokenValue)]
    ELSE s

\* a retry that reuses the token of the closure
retryAuthStale(s, cl) == Bearer(cl.token)

\* fetchWithAuth, lines 146-155: the Authorization header of the retry
retryAuth(s, cl) ==
  LET latest == OrElse(IF s.storage = NoRecord THEN UNDEF ELSE Get(s.storage, "accessToken"),
                       cl.token)
  IN  Bearer(latest)

\* ----------------------------------------------------------- the calls
Free(c) == calls[c].pc \in {"idle", "done"}
\* a new call takes the first free slot
CanStart(c) ==
  /\ loaded
  /\ nops < MaxOps
  /\ Free(c)
  /\ \A d \in Slots : d < c => ~Free(d)

NewCall(op, input, retry) ==
  [IdleCall EXCEPT !.op = op, !.cl = Closure, !.input = input, !.retry = retry]
Done(call, kind, which, status) ==
  [call EXCEPT !.pc = "done",
               !.result = [kind |-> kind, which |-> which, status |-> status]]
\* The record of a call that has ended is kept for one state, the state its
\* caller resumes in, and is dropped by the next step.
Live == [d \in AllSlots |-> IF calls[d].pc = "done" THEN IdleCall ELSE calls[d]]
Ended(c, call) == [Live EXCEPT ![c] = call]
Sent(call, req) == [call EXCEPT !.reqs = Append(@, req)]

\* The mount effect of AuthProvider.  An error thrown by the effect is not
\* caught anywhere: React unmounts the tree, and no operation can be called.
Load ==
  /\ ~loaded
  /\ calls[SyncSlot].pc # "done"
  /\ SetSess(load(Sess))
  /\ loaded' = ~loadThrows(storage)
  /\ calls' = [Live EXCEPT ![SyncSlot] =
       [IdleCall EXCEPT !.op = "load", !.pc = "done", !.cl = Closure,
          !.result = [kind |-> IF loadThrows(storage) THEN "threw" ELSE "returned",
                      which |-> "none", status |-> 0]]]
  /\ UNCHANGED <<viewVars, dataVars, rawApiBase, nops>>

\* login(email, password) up to its fetch
StartLogin(c, email) ==
  /\ CanStart(c)
  /\ calls' = [Live EXCEPT ![c] =
       [Sent(NewCall("login", <<>>, TRUE),
             Request(LoginUrl, NoAuth, toLowerCase(email)))
          EXCEPT !.pc = "login"]]
  /\ nops' = nops + 1
  /\ UNCHANGED <<viewVars, dataVars, rawApiBase, user, token, refreshTokenValue, storage, loaded>>

\* login from the settling of its fetch to its end
LoginResponse(c, res) ==
  /\ calls[c].pc = "login"
  /\ res \in LoginResponses
  /\ LET outcome == loginOutcome(res)
     IN  /\ SetSess(IF outcome = "resolved" THEN loginStore(Sess, res) ELSE Sess)
         /\ calls' = Ended(c, Done([calls[c] EXCEPT !.res = res], outcome, "none", res.status))
  /\ UNCHANGED <<viewVars, dataVars, rawApiBase, loaded, nops>>

\* logout() is synchronous
Logout ==
  /\ loaded
  /\ nops < MaxOps
  /\ SetSess(logout(Sess))
  /\ calls' = [Live EXCEPT ![SyncSlot] =
       [IdleCall EXCEPT !.op = "logout", !.pc = "done", !.cl = Closure,
          !.result = [kind |-> "returned", which |-> "none", status |-> 0]]]
  /\ nops' = nops + 1
  /\ UNCHANGED <<viewVars, dataVars, rawApiBase, loaded>>

\* refreshToken() called on its own, up to its fetch (or its early return)
StartRefreshToken(c) ==
  /\ CanStart(c)
  /\ LET call == NewCall("refreshToken", <<>>, TRUE)
     IN  calls' =
           IF Falsy(refreshTokenValue)
             THEN Ended(c, Done(call, "false", "none", 0))
             ELSE [Live EXCEPT ![c] =
                     [Sent(call, Request(RefreshUrl, NoAuth, <<refreshTokenValue>>))
                        EXCEPT !.pc = "refresh"]]
  /\ nops' = nops + 1
  /\ UNCHANGED <<viewVars, dataVars, rawApiBase, user, token, refreshTokenValue, storage, loaded>>

\* fetchWithAuth(input, init, retry) up to its first fetch
fetchWithAuthStart(call) ==
  [Sent(call, Request(FetchUrl(resolvedInput(call.input)), Bearer(call.cl.token), <<>>))
     EXCEPT !.pc = "first"]

StartFetchWithAuth(c, input, retry) ==
  /\ CanStart(c)
  /\ calls' = [Live EXCEPT ![c] = fetchWithAuthStart(NewCall("fetchWithAuth", input, retry))]
  /\ nops' = nops + 1
  /\ UNCHANGED <<viewVars, dataVars, rawApiBase, user, token, refreshTokenValue, storage, loaded>>

\* refreshUser() up to the first fetch of its fetchWithAuth (or its early return)
StartRefreshUser(c) ==
  /\ CanStart(c)
  /\ LET call == NewCall("refreshUser", MeInput, TRUE)
     IN  calls' =
           IF Falsy(token) THEN Ended(c, Done(call, "resolved", "none", 0))
                           ELSE [Live EXCEPT ![c] = fetchWithAuthStart(call)]
  /\ nops' = nops + 1
  /\ UNCHANGED <<viewVars, dataVars, rawApiBase, user, token, refreshTokenValue, storage, loaded>>

\* fetchWithAuth returns res (its first or second response) with the session
\* s; a call of refreshUser goes on with lines 197-206.
Return(c, call, s, which, res) ==
  /\ SetSess(IF call.op = "refreshUser" THEN refreshUserApply(s, call.cl, res) ELSE s)
  /\ calls' = Ended(c, IF call.op = "refreshUser"
                          THEN Done([call EXCEPT !.res = res], "resolved", which, res.status)
                          ELSE Done([call EXCEPT !.res = res], "response", which, res.status))

\* a fetch of fetchWithAuth rejects: fetchWithAuth (and refreshUser) reject
Throw(c, call) ==
  /\ calls' = Ended(c, Done(call, "threw", "none", 0))
  /\ UNCHANGED <<user, token, refreshTokenValue, storage>>

\* a recovery that waits for a refresh another call has pending
needsRefreshUnlessPending(call, res) ==
  res.status = 401 /\ call.retry /\ \A d \in Slots : calls[d].pc # "refresh"

\* a recovery that ignores the retry parameter
needsRefreshAny401(call, res) == res.status = 401

\* fetchWithAuth, line 138: the first response starts the recovery
needsRefresh(call, res) == res.status = 401 /\ call.retry

\* fetchWithAuth, lines 145-157: the retry once refreshToken() returned true
sendRetry(call, s) ==
  [Sent(call, Request(FetchUrl(call.input), retryAuth(s, call.cl), <<>>))
     EXCEPT !.pc = "retry", !.refreshed = "ok"]

\* fetchWithAuth from its first response to the next fetch or to its end
FirstResponse(c, res) ==
  /\ calls[c].pc = "first"
  /\ res \in TargetResponses(calls[c].op)
  /\ LET call == [calls[c] EXCEPT !.first = res.status]
     IN  IF res.rejected THEN Throw(c, call)
         ELSE IF ~needsRefresh(call, res) THEN Return(c, call, Sess, "first", res)
         ELSE IF Falsy(call.cl.refreshTokenValue)
           \* refreshToken() returns false without a request: logout, line 165
           THEN Return(c, [call EXCEPT !.refreshed = "fail"], logout(Sess), "first", res)
           ELSE /\ calls' = [Live EXCEPT ![c] =
                     [Sent(call, Request(RefreshUrl, NoAuth, <<call.cl.refreshTokenValue>>))
                        EXCEPT !.pc = "refresh"]]
                /\ UNCHANGED <<user, token, refreshTokenValue, storage>>
  /\ UNCHANGED <<viewVars, dataVars, rawApiBase, loaded, nops>>

\* refreshToken from the settling of its fetch to its return, and on into
\* the fetchWithAuth that awaited it
RefreshResponse(c, res) ==
  /\ calls[c].pc = "refresh"
  /\ res \in RefreshResponses
  /\ LET call == [calls[c] EXCEPT !.refreshRes = res]
         ok == refreshTokenOk(res)
         s == refreshTokenApply(Sess, call.cl, res)
         first == Resp(call.first, NoUser, UNDEF, UNDEF, UNDEF)
     IN  IF call.op = "refreshToken"
           THEN /\ SetSess(s)
                /\ calls' = Ended(c, Done(call, IF ok THEN "true" ELSE "false",
                                           "none", res.status))
         ELSE IF ok
           THEN /\ SetSess(s)
                /\ calls' = [Live EXCEPT ![c] = sendRetry(call, s)]
           ELSE Return(c, [call EXCEPT !.refreshed = "fail"], logout(s), "first", first)
  /\ UNCHANGED <<viewVars, dataVars, rawApiBase, loaded, nops>>

\* a second response that never logs out
afterRetryNoLogout(s, second) == s

\* fetchWithAuth, line 162: the session after the second response
afterRetry(s, second) == IF second.status = 401 THEN logout(s) ELSE s

\* a second 401 that starts the recovery again
RetryResponseAgain(c, res) ==
  /\ calls[c].pc = "retry"
  /\ res \in TargetResponses(calls[c].op)
  /\ IF res.rejected THEN Throw(c, calls[c])
     ELSE IF res.status = 401
       THEN /\ calls' = [Live EXCEPT ![c] =
                 [Sent(calls[c], Request(RefreshUrl, NoAuth, <<calls[c].cl.refreshTokenValue>>))
                    EXCEPT !.pc = "refresh"]]
            /\ UNCHANGED <<user, token, refreshTokenValue, storage>>
       ELSE Return(c, calls[c], afterRetry(Sess, res), "second", res)
  /\ UNCHANGED <<viewVars, dataVars, rawApiBase, loaded, nops>>

\* fetchWithAuth from its second response to its end
RetryResponse(c, res) ==
  /\ calls[c].pc = "retry"
  /\ res \in TargetResponses(calls[c].op)
  /\ IF res.rejected THEN Throw(c, calls[c])
     ELSE Return(c, calls[c], afterRetry(Sess, res), "second", res)
  /\ UNCHANGED <<viewVars, dataVars, rawApiBase, loaded, nops>>

Next ==
  \/ Load
  \/ \E c \in Slots, email \in Emails : StartLogin(c, email)
  \/ \E c \in Slots, res \in LoginResponses : LoginResponse(c, res)
  \/ Logout
  \/ \E c \in Slots : StartRefreshToken(c)
  \/ \E c \in Slots : StartRefreshUser(c)
  \/ \E c \in Slots, a \in AbsoluteFetchArgs : StartFetchWithAuth(c, a.input, a.retry)
  \/ \E c \in Slots, res \in TargetResponses("refreshUser") : FirstResponse(c, res)
  \/ \E c \in Slots, res \in RefreshResponses : RefreshResponse(c, res)
  \/ \E c \in Slots, res \in TargetResponses("refreshUser") : RetryResponse(c, res)

\* Concurrent calls, with the base URL configured.
Spec == Init /\ [][Next]_vars

\* ---------------------------------------------- one operation at a time
\* The same program with every build configuration and with each operation
\* awaited before the next one starts.
InitSeq ==
  /\ rawApiBase \in {<<>>, <<ApiOrigin, "/">>}
  /\ user = NoUser
  /\ token = NULL
  /\ refreshTokenValue = NULL
  /\ storage \in InitialRecords
  /\ loaded = FALSE
  /\ calls = [c \in AllSlots |-> IdleCall]
  /\ nops = 0
  /\ USE_MOCK_DATA = TRUE
  /\ NoLeadsCall
  /\ NoComponent

Quiet == \A c \in Slots : Free(c)

NextSeq ==
  \/ Load
  \/ Quiet /\ \E c \in Slots, email \in Emails : StartLogin(c, email)
  \/ \E c \in Slots, res \in LoginResponses : LoginResponse(c, res)
  \/ Quiet /\ Logout
  \/ Quiet /\ \E c \in Slots : StartRefreshToken(c)
  \/ Quiet /\ \E c \in Slots : StartRefreshUser(c)
  \/ Quiet /\ \E c \in Slots, a \in FetchArgs : StartFetchWithAuth(c, a.input, a.retry)
  \/ \E c \in Slots, res \in TargetResponses("refreshUser") : FirstResponse(c, res)
  \/ \E c \in Slots, res \in RefreshResponses : RefreshResponse(c, res)
  \/ \E c \in Slots, res \in TargetResponses("refreshUser") : RetryResponse(c, res)

SpecSeq == InitSeq /\ [][NextSeq]_vars

\* ------------------------------------------------------- page reloads
\* The same program over several page loads: the persisted record outlives
\* the provider, whose state starts from null again and is filled by the
\* mount effect.  The record found at the first load may be one written by
\* an earlier version (access token under token) or not be JSON at all.
LegacyRecord == [user |-> Profile(S_active), token |-> "a1", refreshToken |-> "r1"]
LoadRecords == InitialRecords \cup {LegacyRecord, Malformed}

InitLoad ==
  /\ rawApiBase \in {<<ApiOrigin, "/">>}
  /\ user = NoUser
  /\ token = NULL
  /\ refreshTokenValue = NULL
  /\ storage \in LoadRecords
  /\ loaded = FALSE
  /\ calls = [c \in AllSlots |-> IdleCall]
  /\ nops = 0
  /\ USE_MOCK_DATA = TRUE
  /\ NoLeadsCall
  /\ NoComponent

\* the page is reloaded: pending calls are gone with the old page, and a new
\* AuthProvider is constructed
Reload ==
  /\ loaded
  /\ nops < MaxOps
  /\ user' = NoUser
  /\ token' = NULL
  /\ refreshTokenValue' = NULL
  /\ loaded' = FALSE
  /\ calls' = [c \in AllSlots |-> IdleCall]
  /\ nops' = nops + 1
  /\ UNCHANGED <<viewVars, dataVars, rawApiBase, storage>>

NextLoad ==
  \/ Load
  \/ Reload
  \/ Quiet /\ \E c \in Slots, email \in Emails : StartLogin(c, email)
  \/ \E c \in Slots, res \in LoginResponses : LoginResponse(c, res)
  \/ Quiet /\ Logout
  \/ Quiet /\ \E c \in Slots : StartRefreshToken(c)
  \/ Quiet /\ \E c \in Slots : StartRefreshUser(c)
  \/ Quiet /\ \E c \in Slots, a \in AbsoluteFetchArgs : StartFetchWithAuth(c, a.input, a.retry)
  \/ \E c \in Slots, res \in TargetResponses("refreshUser") : FirstResponse(c, res)
  \/ \E c \in Slots, res \in RefreshResponses : RefreshResponse(c, res)
  \/ \E c \in Slots, res \in TargetResponses("refreshUser") : RetryResponse(c, res)

SpecLoad == InitLoad /\ [][NextLoad]_vars

\* ------------------------------------------------- hooks/useDataService
\* program constants
Take == 100
DefaultMaxPages == 200
MockLeadCount == 690

\* a falsy cursor: null, undefined or 0
FalsyCursor(c) == c \in {NullCursor, UndefCursor, 0}

\* The parsed body of an answer: a bare array of items, or an object with
\* the optional properties items and nextCursor.  A lead is its index.
PageArray(items) ==
  [bare |-> TRUE, hasItems |-> TRUE, items |-> items, nextCursor |-> UndefCursor]
PageObject(hasItems, items, nextCursor) ==
  [bare |-> FALSE, hasItems |-> hasItems, items |-> items, nextCursor |-> nextCursor]
NoData == PageObject(FALSE, <<>>, UndefCursor)
Answer(rejected, ok, data) == [rejected |-> rejected, ok |-> ok, data |-> data]

\* lib/mockData generateMockLead(index): the lead with id lead-<index>
generateMockLead(index) == index

\* a fetchMockLeads whose first page starts at index 1
fetchMockLeadsFromOne(take, cur) ==
  LET startIndex == IF FalsyCursor(cur) THEN 1 ELSE cur
      endIndex == IF startIndex + take < MockLeadCount THEN startIndex + take
                                                      ELSE MockLeadCount
  IN  PageObject(TRUE,
                 [i \in 1..(endIndex - startIndex) |-> generateMockLead(startIndex + i)],
                 IF endIndex < MockLeadCount THEN endIndex ELSE NullCursor)

\* lib/mockData fetchMockLeads(take, cursor)
fetchMockLeads(take, cur) ==
  LET startIndex == IF FalsyCursor(cur) THEN 0 ELSE cur
      endIndex == IF startIndex + take < MockLeadCount THEN startIndex + take
                                                      ELSE MockLeadCount
  IN  PageObject(TRUE,
                 [i \in 1..(endIndex - startIndex) |-> generateMockLead(startIndex + i)],
                 IF endIndex < MockLeadCount THEN endIndex ELSE NullCursor)

\* fetchLeads, lines 26-29: the URL passed to fetchWithAuth, as its base,
\* its path and its query parameters (an absent parameter is undefined)
leadsUrl(take, cur) ==
  [base |-> IF Len(rawApiBase) = 0 THEN <<"undefined">> ELSE rawApiBase,
   path |-> <<"/", "crm-leads">>,
   take |-> take,
   cursor |-> IF FalsyCursor(cur) THEN UndefCursor ELSE cur]

\* a fetchLeads that does not test res.ok
fetchLeadsThrowsOnReject(ans) == ans.rejected

\* fetchLeads, lines 31-32: the await rejects, or the response is not ok
fetchLeadsThrows(ans) == ans.rejected \/ ~ans.ok

\* fetchLeads, lines 37-44: the normalised response
fetchLeadsResult(data) ==
  IF data.bare THEN [items |-> data.items, nextCursor |-> NullCursor]
  ELSE [items |-> IF data.hasItems THEN data.items ELSE <<>>,
        nextCursor |-> IF FalsyCursor(data.nextCursor) THEN NullCursor
                                                       ELSE data.nextCursor]

\* an aggregation that puts the new page in front
pushAllFront(all, items) == items \o all

\* fetchAllLeads, line 54: allLeads.push(...response.items)
pushAll(all, items) == all \o items

\* fetchAllLeads, line 57: the condition of the do-while
loopAgain(cur, pgs, mp) == cur # NullCursor /\ pgs < mp

\* What await fetchWithAuth(url) and res.json() give fetchLeads: a rejection,
\* a response that is not ok, or an ok response with a parsed body.  (The
\* 401 recovery inside fetchWithAuth is the subject of Spec.)
PageItems == {<<11>>, <<12, 13>>}
PageCursors == {NullCursor, UndefCursor, 0, 1, 2}
PageAnswers ==
  {Answer(TRUE, FALSE, NoData), Answer(FALSE, FALSE, NoData)}
    \cup {Answer(FALSE, TRUE, PageArray(items)) : items \in {<<>>, <<11>>}}
    \cup {Answer(FALSE, TRUE, PageObject(FALSE, <<>>, c)) : c \in {NullCursor, 1}}
    \cup {Answer(FALSE, TRUE, PageObject(TRUE, items, c)) :
            items \in PageItems, c \in PageCursors}

\* the values of maxPages: small ones, and with the mock data the default
MaxPagesArgs ==
  0..MaxCeiling \cup (IF USE_MOCK_DATA THEN {DefaultMaxPages} ELSE {})

InitLeads ==
  /\ rawApiBase \in {<<>>, <<ApiOrigin, "/">>}
  /\ user = NoUser
  /\ token = NULL
  /\ refreshTokenValue = NULL
  /\ storage = NoRecord
  /\ loaded = FALSE
  /\ calls = [c \in AllSlots |-> IdleCall]
  /\ nops = 0
  /\ USE_MOCK_DATA \in BOOLEAN
  /\ NoLeadsCall
  /\ NoComponent

\* fetchLeads({ take: 100, cursor }) up to its await
callFetchLeads(cur) ==
  /\ pageReqs' = Append(pageReqs, [take |-> Take, cursor |-> cur])
  /\ netReqs' = IF USE_MOCK_DATA THEN netReqs
                                 ELSE Append(netReqs, leadsUrl(Take, cur))

\* fetchAllLeads(maxPages) up to the await of its first fetchLeads
StartFetchAllLeads(mp) ==
  /\ leadsPc = "idle"
  /\ maxPages' = mp
  /\ allLeads' = <<>>
  /\ cursor' = NullCursor
  /\ pages' = 0
  /\ callFetchLeads(NullCursor)
  /\ leadsPc' = "awaiting"
  /\ UNCHANGED <<USE_MOCK_DATA, pageAnswers, leadsResult, authVars, viewVars>>

\* the awaited fetchLeads settles: fetchLeads from line 32 to its end, and
\* fetchAllLeads from line 54 to its next await or to its end
FetchLeadsSettles(ans) ==
  /\ leadsPc = "awaiting"
  /\ ans \in (IF USE_MOCK_DATA
                THEN {Answer(FALSE, TRUE, fetchMockLeads(Take, cursor))}
                ELSE PageAnswers)
  /\ pageAnswers' = Append(pageAnswers, ans)
  /\ IF fetchLeadsThrows(ans)
       THEN /\ leadsPc' = "done"
            /\ leadsResult' = [kind |-> IF ans.rejected THEN "NetworkError"
                                                        ELSE "FailedToLoadLeads",
                               leads |-> <<>>]
            /\ UNCHANGED <<allLeads, cursor, pages, pageReqs, netReqs>>
       ELSE LET response == fetchLeadsResult(ans.data)
                all == pushAll(allLeads, response.items)
            IN  /\ allLeads' = all
                /\ cursor' = response.nextCursor
                /\ pages' = pages + 1
                /\ IF loopAgain(response.nextCursor, pages + 1, maxPages)
                     THEN /\ callFetchLeads(response.nextCursor)
                          /\ UNCHANGED <<leadsPc, leadsResult>>
                     ELSE /\ leadsPc' = "done"
                          /\ leadsResult' = [kind |-> "returned", leads |-> all]
                          /\ UNCHANGED <<pageReqs, netReqs>>
  /\ UNCHANGED <<USE_MOCK_DATA, maxPages, authVars, viewVars>>

NextLeads ==
  \/ \E mp \in MaxPagesArgs : StartFetchAllLeads(mp)
  \/ \E ans \in PageAnswers \cup {Answer(FALSE, TRUE, fetchMockLeads(Take, cursor))} :
       FetchLeadsSettles(ans)

SpecLeads == InitLeads /\ [][NextLeads]_vars

\* ------------------------------------------------ the mock data, paged
\* With the mock data enabled: fetchAllLeads() with its default ceiling, and
\* a caller of fetchLeads that follows the cursors with a page size of its
\* own until nextCursor is null.
MockTakes == 1..MaxTake \cup {Take, MockLeadCount, MockLeadCount + 1}

InitMock ==
  /\ rawApiBase \in {<<ApiOrigin, "/">>}
  /\ user = NoUser
  /\ token = NULL
  /\ refreshTokenValue = NULL
  /\ storage = NoRecord
  /\ loaded = FALSE
  /\ calls = [c \in AllSlots |-> IdleCall]
  /\ nops = 0
  /\ USE_MOCK_DATA = TRUE
  /\ NoLeadsCall
  /\ NoComponent

\* fetchLeads({ take, cursor: null }) up to its await
StartWalk(take) ==
  /\ leadsPc = "idle"
  /\ USE_MOCK_DATA
  /\ pageReqs' = <<[take |-> take, cursor |-> NullCursor]>>
  /\ leadsPc' = "walking"
  /\ UNCHANGED <<USE_MOCK_DATA, maxPages, allLeads, cursor, pages, netReqs,
                 pageAnswers, leadsResult, authVars, viewVars>>

\* fetchLeads returns what fetchMockLeads returns (line 22); the caller
\* keeps the items and asks for the next page with the cursor returned
WalkStep ==
  /\ leadsPc = "walking"
  /\ LET take == pageReqs[Len(pageReqs)].take
         response == fetchMockLeads(take, cursor)
     IN  /\ pageAnswers' = Append(pageAnswers, Answer(FALSE, TRUE, response))
         /\ allLeads' = pushAll(allLeads, response.items)
         /\ cursor' = response.nextCursor
         /\ pages' = pages + 1
         /\ IF response.nextCursor # NullCursor
              THEN /\ pageReqs' = Append(pageReqs, [take |-> take,
                                                    cursor |-> response.nextCursor])
                   /\ UNCHANGED leadsPc
              ELSE /\ leadsPc' = "done"
                   /\ UNCHANGED pageReqs
  /\ UNCHANGED <<USE_MOCK_DATA, maxPages, netReqs, leadsResult, authVars, viewVars>>

NextMock ==
  \/ StartFetchAllLeads(DefaultMaxPages)
  \/ FetchLeadsSettles(Answer(FALSE, TRUE, fetchMockLeads(Take, cursor)))
  \/ \E take \in MockTakes : StartWalk(take)
  \/ WalkStep

SpecMock == InitMock /\ [][NextMock]_vars

\* ------------------------------------------------ dashboard components
\* The effect of a dashboard component: load() at mount (ActivityFeed and
\* VisaStatusReport also every 30 s), the cleanup that sets cancelled, and
\* the React state a load() writes when it completes.  The lead-loading loop
\* of DashboardStats is also the loop of RevenueAttribution and of the
\* paging VisaStatusReport (the same statements).  fetchWithAuth is its
\* answer: a rejection, a response that is not ok, or an ok response with a
\* parsed body.
PageTake == 100
LeadCeiling == 1000

Components == {"DashboardStats", "TopAgents", "ActivityFeed", "VisaStatusReport"}
\* setInterval(load, 30000) in the effect
Polls(c) == c \in {"ActivityFeed", "VisaStatusReport"}
\* useState(true) for loading, useState(false) in VisaStatusReport
InitialLoading(c) == c # "VisaStatusReport"

BareBody(n) == [bare |-> TRUE, hasItems |-> FALSE, items |-> n, nextCursor |-> UndefCursor]
ObjectBody(hasItems, n, nextCursor) ==
  [bare |-> FALSE, hasItems |-> hasItems, items |-> n, nextCursor |-> nextCursor]
\* pages of at most take items
PageSizes == {0, PageTake - 1, PageTake}
LoadCursors == {NullCursor, UndefCursor, 1}
Bodies ==
  {BareBody(n) : n \in PageSizes}
    \cup {ObjectBody(FALSE, 0, c) : c \in LoadCursors}
    \cup {ObjectBody(TRUE, n, c) : n \in PageSizes, c \in LoadCursors}
LoadAnswers ==
  {Answer(TRUE, FALSE, NoBody), Answer(FALSE, FALSE, NoBody)}
    \cup {Answer(FALSE, TRUE, b) : b \in Bodies}

\* Array.isArray(d) ? d : d.items || []
itemsOrArray(d) == IF d.bare \/ d.hasItems THEN d.items ELSE 0
\* d.items || []  (an array has no property items)
itemsOnly(d) == IF d.hasItems THEN d.items ELSE 0
\* Array.isArray(firstData) ? null : firstData.nextCursor
firstCursor(d) == IF d.bare THEN NullCursor ELSE d.nextCursor

\* a loop that goes on while at most 1000 leads are accumulated
whileMoreInclusive(cur, n) == cur # NullCursor /\ n <= LeadCeiling

\* the condition of the while: cursor !== null && allLeads.length < 1000
whileMore(cur, n) == cur # NullCursor /\ n < LeadCeiling

\* the code of load() from one answer to the next await or to its end:
\* the locals it leaves, and whether it goes on ("more"), reaches the end
\* of the try block ("done") or enters the catch block ("threw")
loadStep(comp, ld, ans) ==
  IF ans.rejected THEN [kind |-> "threw", ld |-> ld]
  ELSE IF ld.pc = "users"
    THEN [kind |-> "more",
          ld |-> [ld EXCEPT !.pc = "first", !.reqs = 1,
                            !.allUsers = IF ans.ok THEN itemsOrArray(ans.data) ELSE 0]]
  ELSE IF ld.pc = "first" /\ comp = "VisaStatusReport"
    THEN [kind |-> "done",
          ld |-> [ld EXCEPT !.data = ans.data,
                            !.allLeads = IF ans.ok THEN itemsOrArray(ans.data) ELSE 0]]
  ELSE IF ld.pc = "first" /\ ~ans.ok THEN [kind |-> "threw", ld |-> ld]
  ELSE IF ld.pc = "first" /\ comp = "TopAgents"
    THEN [kind |-> "done",
          ld |-> [ld EXCEPT !.data = ans.data, !.allLeads = itemsOrArray(ans.data)]]
  ELSE IF ld.pc = "first" /\ comp = "ActivityFeed"
    THEN [kind |-> "done",
          ld |-> [ld EXCEPT !.data = ans.data, !.allLeads = itemsOnly(ans.data)]]
  ELSE IF ld.pc = "first"
    THEN LET n == itemsOrArray(ans.data)
             cur == firstCursor(ans.data)
         IN  [kind |-> IF whileMore(cur, n) THEN "more" ELSE "done",
              ld |-> [ld EXCEPT !.data = ans.data, !.allLeads = n, !.cursor = cur,
                                !.pc = IF whileMore(cur, n) THEN "next" ELSE @,
                                !.reqs = IF whileMore(cur, n) THEN @ + 1 ELSE @]]
  ELSE IF ~ans.ok THEN [kind |-> "done", ld |-> ld]
  ELSE LET n == ld.allLeads + itemsOnly(ans.data)
           cur == ans.data.nextCursor
       IN  [kind |-> IF whileMore(cur, n) THEN "more" ELSE "done",
            ld |-> [ld EXCEPT !.data = ans.data, !.allLeads = n, !.cursor = cur,
                              !.reqs = IF whileMore(cur, n) THEN @ + 1 ELSE @]]

\* the data state after load() number id has ended
setData(comp, canc, id, ld, kind, prev) ==
  IF kind = "threw"
    THEN IF comp = "TopAgents" THEN [by |-> id, users |-> 0, items |-> 0]
         ELSE IF comp = "ActivityFeed" /\ ~canc THEN [by |-> id, users |-> 0, items |-> 0]
         ELSE prev
  ELSE IF canc THEN prev
  ELSE [by |-> id, users |-> ld.allUsers, items |-> ld.allLeads]

\* the catch blocks that call toast()
toastsOnError(comp) == comp \in {"DashboardStats", "VisaStatusReport"}

InitView ==
  /\ rawApiBase \in {<<ApiOrigin, "/">>}
  /\ user = NoUser
  /\ token = NULL
  /\ refreshTokenValue = NULL
  /\ storage = NoRecord
  /\ loaded = FALSE
  /\ calls = [c \in AllSlots |-> IdleCall]
  /\ nops = 0
  /\ USE_MOCK_DATA = TRUE
  /\ NoLeadsCall
  /\ component \in Components
  /\ cancelled = FALSE
  /\ loads = [i \in LoadIds |-> IdleLoad]
  /\ nloads = 0
  /\ dataState = NoData0
  /\ loading = InitialLoading(component)
  /\ timers = 0
  /\ toasts = 0
  /\ NoBreakdown

\* load() up to its first await: at mount, and at each tick of the interval
StartLoad ==
  /\ component # "none"
  /\ ~cancelled
  /\ nloads < MaxLoads
  /\ nloads = 0 \/ Polls(component)
  /\ nloads' = nloads + 1
  /\ loading' = TRUE
  /\ loads' = [loads EXCEPT ![nloads + 1] =
                 IF component = "VisaStatusReport"
                   THEN [IdleLoad EXCEPT !.pc = "users"]
                   ELSE [IdleLoad EXCEPT !.pc = "first", !.reqs = 1]]
  /\ UNCHANGED <<component, cancelled, dataState, timers, toasts, visaVars,
                 authVars, dataVars>>

\* the cleanup of the effect
Unmount ==
  /\ component # "none"
  /\ ~cancelled
  /\ cancelled' = TRUE
  /\ UNCHANGED <<component, loads, nloads, dataState, loading, timers, toasts,
                 visaVars, authVars, dataVars>>

\* an await of load() number id settles with ans; the locals of a load()
\* that has ended are gone
LoadAnswer(id, ans) ==
  /\ loads[id].pc \in {"users", "first", "next"}
  /\ LET r == loadStep(component, loads[id], ans)
     IN  IF r.kind = "more"
           THEN /\ r.ld.reqs <= MaxFollowUps + 1
                /\ loads' = [loads EXCEPT ![id] = r.ld]
                /\ UNCHANGED <<dataState, timers, toasts>>
           ELSE /\ loads' = [loads EXCEPT ![id] = [IdleLoad EXCEPT !.pc = r.kind]]
                /\ dataState' = setData(component, cancelled, id, r.ld, r.kind, dataState)
                /\ toasts' = IF r.kind = "threw" /\ toastsOnError(component) /\ ~cancelled
                               THEN toasts + 1 ELSE toasts
                /\ timers' = IF cancelled THEN timers ELSE timers + 1
  /\ UNCHANGED <<component, cancelled, nloads, loading, visaVars, authVars, dataVars>>

\* a timeout set by a finally block fires: setLoading(false)
TimerFires ==
  /\ timers > 0
  /\ timers' = timers - 1
  /\ loading' = FALSE
  /\ UNCHANGED <<component, cancelled, loads, nloads, dataState, toasts,
                 visaVars, authVars, dataVars>>

NextView ==
  \/ StartLoad
  \/ Unmount
  \/ \E id \in LoadIds, ans \in LoadAnswers : LoadAnswer(id, ans)
  \/ TimerFires

SpecView == InitView /\ [][NextView]_vars

\* ------------------------------------------- the visa-status breakdown
\* VisaStatusReport's memo visaData.  A string is the sequence of its
\* characters.
F1Visa == <<"F", "-", "1", " ", "V", "i", "s", "a">>
F1Opt == <<"F", "-", "1", " ", "O", "P", "T">>
StemOpt == <<"S", "T", "E", "M", " ", "O", "P", "T">>
H1BVisa == <<"H", "-", "1", "B", " ", "V", "i", "s", "a">>
GreenCard == <<"G", "r", "e", "e", "n", " ", "C", "a", "r", "d">>
Other == <<"O", "t", "h", "e", "r">>
Unknown == <<"U", "n", "k", "n", "o", "w", "n">>


\* String.prototype.trim
RECURSIVE trim(_)
trim(str) ==
  IF str = <<>> THEN str
  ELSE IF Head(str) = " " THEN trim(Tail(str))
  ELSE IF str[Len(str)] = " " THEN trim(SubSeq(str, 1, Len(str) - 1))
  ELSE str
\* String.prototype.includes
includes(str, part) ==
  \E i \in 0..(Len(str) - Len(part)) : SubSeq(str, i + 1, i + Len(part)) = part

\* a lead: its optional properties visastatusid and status
VisaLead(hasId, id, hasStatus, status) ==
  [hasId |-> hasId, visastatusid |-> id, hasStatus |-> hasStatus, status |-> status]

\* VISA_STATUS_MAP: the ids it has, and the name of each
VisaStatusIds == 1..6
VISA_STATUS_MAP(id) ==
  CASE id = 1 -> F1Visa
    [] id = 2 -> F1Opt
    [] id = 3 -> StemOpt
    [] id = 4 -> H1BVisa
    [] id = 5 -> GreenCard
    [] id = 6 -> Other

\* getVisaTypeName: VISA_STATUS_MAP[visaStatusId] || 'Unknown'
getVisaTypeName(visaStatusId) ==
  IF visaStatusId \in VisaStatusIds THEN VISA_STATUS_MAP(visaStatusId) ELSE Unknown

\* normalizeVisaType
normalizeVisaType(visaType) ==
  IF visaType = <<>> THEN Unknown
  ELSE LET normalized == trim(toLowerCase(visaType))
       IN  IF includes(normalized, <<"f", "-", "1">>)
             \/ includes(normalized, <<"f", "1">>)
             THEN IF includes(normalized, <<"s", "t", "e", "m">>)
                     \/ includes(normalized, <<"s", "t", "e", "m", " ", "o", "p", "t">>)
                    THEN StemOpt
                  ELSE IF includes(normalized, <<"o", "p", "t">>) /\ ~includes(normalized, <<"s", "t", "e", "m">>)
                    THEN F1Opt
                  ELSE F1Visa
           ELSE IF includes(normalized, <<"s", "t", "e", "m", " ", "o", "p", "t">>)
                 \/ includes(normalized, <<"s", "t", "e", "m", "-", "o", "p", "t">>)
             THEN StemOpt
           ELSE IF includes(normalized, <<"o", "p", "t">>) THEN F1Opt
           ELSE IF includes(normalized, <<"h", "-", "1", "b">>)
                 \/ includes(normalized, <<"h", "1", "b">>)
                 \/ includes(normalized, <<"h", "-", "1">>)
                 \/ includes(normalized, <<"h", "1">>)
             THEN H1BVisa
           ELSE IF includes(normalized, <<"g", "r", "e", "e", "n", " ", "c", "a", "r", "d">>)
                 \/ includes(normalized, <<"g", "r", "e", "e", "n", "c", "a", "r", "d">>)
                 \/ includes(normalized, <<"p", "e", "r", "m", "a", "n", "e", "n", "t", " ", "r", "e", "s", "i", "d", "e", "n", "t">>)
                 \/ includes(normalized, <<"p", "r">>)
                 \/ includes(normalized, <<"e", "b", "-", "1">>)
                 \/ includes(normalized, <<"e", "b", "-", "2">>)
                 \/ includes(normalized, <<"e", "b", "-", "3">>)
                 \/ includes(normalized, <<"e", "b", "1">>)
                 \/ includes(normalized, <<"e", "b", "2">>)
                 \/ includes(normalized, <<"e", "b", "3">>)
             THEN GreenCard
           ELSE IF includes(normalized, <<"l", "-", "1">>)
                 \/ includes(normalized, <<"l", "1">>)
                 \/ includes(normalized, <<"o", "-", "1">>)
                 \/ includes(normalized, <<"o", "1">>)
                 \/ includes(normalized, <<"e", "-", "2">>)
                 \/ includes(normalized, <<"e", "2">>)
                 \/ includes(normalized, <<"t", "n">>)
                 \/ includes(normalized, <<"j", "-", "1">>)
                 \/ includes(normalized, <<"j", "1">>)
             THEN Other
           ELSE Unknown

\* lead.visastatusid ?? 0
visaIdOf(lead) == IF lead.hasId THEN lead.visastatusid ELSE 0
\* (lead.status ?? '').toLowerCase()
statusOf(lead) == toLowerCase(IF lead.hasStatus THEN lead.status ELSE <<>>)
isConverted(status) ==
  includes(status, <<"c", "l", "o", "s", "e", "d", " ", "w", "o", "n">>)
  \/ includes(status, <<"c", "l", "o", "s", "e", "d">>)
  \/ includes(status, <<"w", "o", "n">>)

\* one iteration of the forEach: the visaMap it leaves
countLead(map, lead) ==
  LET visaType == normalizeVisaType(getVisaTypeName(visaIdOf(lead)))
      current == IF visaType \in DOMAIN map THEN map[visaType]
                 ELSE [leads |-> 0, converted |-> 0]
      entry == [leads |-> current.leads + 1,
                converted |-> current.converted
                                + (IF isConverted(statusOf(lead)) THEN 1 ELSE 0)]
  IN  [k \in DOMAIN map \cup {visaType} |-> IF k = visaType THEN entry ELSE map[k]]

visaOrder == <<F1Visa, F1Opt, StemOpt, H1BVisa, GreenCard, Other, Unknown>>
\* visaOrder.map(...).filter(item => item.leads > 0)
visaRows(map) ==
  LET row(visaType) ==
        IF visaType \in DOMAIN map
          THEN [visaType |-> visaType, leads |-> map[visaType].leads,
                converted |-> map[visaType].converted]
          ELSE [visaType |-> visaType, leads |-> 0, converted |-> 0]
      positive(item) == item.leads > 0
  IN  SelectSeq([i \in 1..Len(visaOrder) |-> row(visaOrder[i])], positive)

\* the leads a breakdown is computed from
VisaIds == 0..7
LeadStatuses == {<<"C", "l", "o", "s", "e", "d", " ", "W", "o", "n">>, <<"N", "e", "w">>}
VisaLeads ==
  {VisaLead(FALSE, 0, hs, st) : hs \in {FALSE}, st \in {<<>>}}
    \cup {VisaLead(TRUE, id, FALSE, <<>>) : id \in VisaIds}
    \cup {VisaLead(TRUE, id, TRUE, st) : id \in VisaIds, st \in LeadStatuses}
RECURSIVE LeadLists(_)
LeadLists(n) ==
  IF n = 0 THEN {<<>>}
  ELSE LeadLists(n - 1)
         \cup {Append(l, x) : l \in {m \in LeadLists(n - 1) : Len(m) = n - 1},
                              x \in VisaLeads}

InitVisa ==
  /\ rawApiBase \in {<<ApiOrigin, "/">>}
  /\ user = NoUser
  /\ token = NULL
  /\ refreshTokenValue = NULL
  /\ storage = NoRecord
  /\ loaded = FALSE
  /\ calls = [c \in AllSlots |-> IdleCall]
  /\ nops = 0
  /\ USE_MOCK_DATA = TRUE
  /\ NoLeadsCall
  /\ component = "VisaStatusReport"
  /\ cancelled = FALSE
  /\ loads = [i \in LoadIds |-> IdleLoad]
  /\ nloads = 0
  /\ dataState = NoData0
  /\ loading = InitialLoading(component)
  /\ timers = 0
  /\ toasts = 0
  /\ filteredLeads \in LeadLists(MaxLeads)
  /\ visaMap = <<>>
  /\ visaPos = 0
  /\ visaData = NoRows

\* the forEach visits the next lead
CountLead ==
  /\ ~visaData.computed
  /\ visaPos < Len(filteredLeads)
  /\ visaPos' = visaPos + 1
  /\ visaMap' = countLead(visaMap, filteredLeads[visaPos + 1])
  /\ UNCHANGED <<filteredLeads, visaData, component, cancelled, loads, nloads,
                 dataState, loading, timers, toasts, authVars, dataVars>>

\* after the forEach: the rows of visaData
FinishVisaData ==
  /\ ~visaData.computed
  /\ visaPos = Len(filteredLeads)
  /\ visaData' = [computed |-> TRUE, rows |-> visaRows(visaMap)]
  /\ UNCHANGED <<filteredLeads, visaMap, visaPos, component, cancelled, loads, nloads,
                 dataState, loading, timers, toasts, authVars, dataVars>>

NextVisa ==
  \/ CountLead
  \/ FinishVisaData

SpecVisa == InitVisa /\ [][NextVisa]_vars

\* ================================================================ claims
\* vocabulary of the claims
CountUrl(call, url) == Cardinality({i \in DOMAIN call.reqs : call.reqs[i].url = url})
CountTarget(call) == Cardinality({i \in DOMAIN call.reqs : call.reqs[i].url # RefreshUrl})
TargetUrl(call) == FetchUrl(resolvedInput(call.input))
Cleared == user = NoUser /\ token = NULL /\ refreshTokenValue = NULL /\ storage = NoRecord
Present(v) == v \notin {NULL, UNDEF, EMPTY}
\* the access token a response carries: accessToken, else token
ReturnedAccess(res) == IF Present(res.accessToken) THEN res.accessToken ELSE res.token
\* the refreshToken() of the call failed: no refresh token held, a rejected
\* fetch, a non-2xx answer, or an answer without an access token
RefreshFailed(call) ==
  \/ ~Present(call.cl.refreshTokenValue)
  \/ call.refreshRes.rejected
  \/ call.refreshRes.status \notin 200..299
  \/ ~Present(ReturnedAccess(call.refreshRes))
\* a fetchWithAuth call that returned after a 401 on its first attempt
Recovered(call) ==
  /\ call.op = "fetchWithAuth"
  /\ call.pc = "done"
  /\ call.result.kind = "response"
  /\ call.first = 401
  /\ call.retry

\* C1: a fetchWithAuth whose first response is 401 and whose refresh
\* succeeds sends exactly two requests to the one resolved target URL and
\* exactly one request to the refresh endpoint, for every kind of target.
C1_TwoRequestsToResolvedUrl ==
  \A c \in Slots :
    Recovered(calls[c]) /\ ~RefreshFailed(calls[c])
      => /\ CountUrl(calls[c], TargetUrl(calls[c])) = 2
         /\ CountUrl(calls[c], RefreshUrl) = 1
         /\ Len(calls[c].reqs) = 3

\* C2: when the first response is 401 and refreshToken() fails, fetchWithAuth
\* returns the original 401 response, sends no retry, and the session is
\* cleared in memory and in storage when it returns.
C2_FailedRefreshClearsSession ==
  \A c \in Slots :
    Recovered(calls[c]) /\ RefreshFailed(calls[c])
      => /\ calls[c].result = [kind |-> "response", which |-> "first", status |-> 401]
         /\ CountTarget(calls[c]) = 1
         /\ CountUrl(calls[c], RefreshUrl) <= 1
         /\ Cleared

C2_Witness ==
  \E c \in Slots :
    /\ Recovered(calls[c])
    /\ calls[c].cl.token = "a1"
    /\ calls[c].refreshRes.status = 200
    /\ ~Present(ReturnedAccess(calls[c].refreshRes))
    /\ Len(calls[c].reqs) = 2
    /\ Cleared

\* C3: after a 401, a successful refresh and the retry, fetchWithAuth returns
\* the retried response whatever its status; a retried 401 has logged out
\* before the return, any other status leaves the session authenticated
\* with the refreshed tokens.
C3_RetriedResponseReturned ==
  \A c \in Slots :
    Recovered(calls[c]) /\ ~RefreshFailed(calls[c])
      => LET call == calls[c]
             newRefresh == IF call.refreshRes.refreshToken \in {NULL, UNDEF}
                             THEN call.cl.refreshTokenValue
                             ELSE call.refreshRes.refreshToken
         IN  /\ call.result = [kind |-> "response", which |-> "second",
                               status |-> call.res.status]
             /\ call.res.status = 401 => Cleared
             /\ call.res.status # 401 =>
                  /\ token = ReturnedAccess(call.refreshRes)
                  /\ Present(token)
                  /\ refreshTokenValue = newRefresh
                  /\ storage # NoRecord
                  /\ Get(storage, "accessToken") = token
                  /\ Get(storage, "refreshToken") = refreshTokenValue

C3_Witness ==
  \E c \in Slots :
    /\ Recovered(calls[c])
    /\ ~RefreshFailed(calls[c])
    /\ calls[c].res.status = 401
    /\ calls[c].result.which = "second"
    /\ Cleared

\* C4: one fetchWithAuth call sends at most two requests to its target and
\* at most one to the refresh endpoint, whatever the server answers; each
\* answer ends the call or sends the next request of the fixed sequence
\* first, refresh, retry.
C4_AtMostOneRetry ==
  \A c \in Slots :
    calls[c].op = "fetchWithAuth"
      => /\ CountTarget(calls[c]) <= 2
         /\ CountUrl(calls[c], RefreshUrl) <= 1
         /\ Len(calls[c].reqs) <= 3
         /\ calls[c].pc = "first" => Len(calls[c].reqs) = 1
         /\ calls[c].pc = "refresh" => Len(calls[c].reqs) = 2
         /\ calls[c].pc = "retry" => Len(calls[c].reqs) = 3

C4_Witness ==
  \E c \in Slots :
    /\ Recovered(calls[c])
    /\ calls[c].res.status = 401
    /\ calls[c].result.which = "second"
    /\ CountTarget(calls[c]) = 2
    /\ CountUrl(calls[c], RefreshUrl) = 1

SessionUnchanged == UNCHANGED <<user, token, refreshTokenValue, storage>>

\* C5: the retry of fetchWithAuth carries as bearer the access token that the
\* persisted record holds when the retry is sent, the one the refresh wrote,
\* not the token of the call's closure that the first request carried.
C5_RetryCarriesStoredToken ==
  [][\A c \in Slots :
       calls[c].pc = "refresh" /\ calls'[c].pc = "retry"
         => /\ storage' # NoRecord
            /\ calls'[c].reqs[3].auth = Get(storage', "accessToken")
            /\ calls'[c].reqs[3].auth = ReturnedAccess(calls'[c].refreshRes)]_vars

C5_Witness ==
  \E c \in Slots :
    /\ calls[c].pc = "retry"
    /\ calls[c].reqs[1].auth = "a1"
    /\ calls[c].reqs[3].auth = "a2"
    /\ Get(storage, "accessToken") = "a2"

\* C6: a first response that is not 401, or any first response of a call made
\* with retry = false, is returned as it is: no refresh request, no second
\* request, and the session in memory and in storage is left unchanged.
C6_NoRecoveryWithout401 ==
  [][\A c \in Slots :
       /\ calls[c].pc = "first"
       /\ calls'[c] # calls[c]
       /\ calls'[c].op = "fetchWithAuth"
       /\ calls'[c].first # 0
       /\ (calls'[c].first # 401 \/ ~calls'[c].retry)
       => /\ calls'[c].pc = "done"
          /\ calls'[c].result = [kind |-> "response", which |-> "first",
                                 status |-> calls'[c].first]
          /\ Len(calls'[c].reqs) = 1
          /\ SessionUnchanged]_vars

C6_Witness ==
  \E c \in Slots :
    /\ calls[c].op = "fetchWithAuth"
    /\ calls[c].pc = "done"
    /\ ~calls[c].retry
    /\ calls[c].result = [kind |-> "response", which |-> "first", status |-> 401]
    /\ Len(calls[c].reqs) = 1
    /\ token = "a1"
    /\ storage # NoRecord

\* null and undefined both mean "no value"
Same(a, b) == a = b \/ {a, b} \subseteq {NULL, UNDEF}
MemEmpty == user = NoUser /\ Same(token, NULL) /\ Same(refreshTokenValue, NULL)
Converged ==
  IF storage = NoRecord THEN MemEmpty
  ELSE /\ ~MemEmpty
       /\ GetUser(storage) = user
       /\ Same(Get(storage, "accessToken"), token)
       /\ Same(Get(storage, "refreshToken"), refreshTokenValue)

\* C7: after login, refreshToken, refreshUser or logout has completed with no
\* other operation in flight, the persisted record and the in-memory state
\* agree: the record is absent exactly when memory is empty, and otherwise
\* holds the in-memory user, access token and refresh token.
C7_Converged == loaded /\ Quiet => Converged

\* C8: a login answered 2xx with a profile whose status is "active" in any
\* letter case resolves, has posted the lower-cased email to the login
\* endpoint, and leaves the response's user, access token (accessToken, else
\* token) and refresh token in memory and in the persisted record.
C8_LoginStoresSession ==
  \A c \in Slots :
    /\ calls[c].op = "login"
    /\ calls[c].pc = "done"
    /\ ~calls[c].res.rejected
    /\ calls[c].res.status \in 200..299
    /\ calls[c].res.user \in {Profile(S_active), Profile(S_ACTIVE)}
    => LET res == calls[c].res
       IN  /\ calls[c].result.kind = "resolved"
           /\ calls[c].reqs = <<Request(<<ApiOrigin, "/", "login">>, NoAuth, <<"a", "b">>)>>
           /\ user = res.user
           /\ Same(token, ReturnedAccess(res))
           /\ Same(refreshTokenValue, res.refreshToken)
           /\ storage # NoRecord
           /\ GetUser(storage) = res.user
           /\ Same(Get(storage, "accessToken"), ReturnedAccess(res))
           /\ Same(Get(storage, "refreshToken"), res.refreshToken)

C8_Witness ==
  \E c \in Slots :
    /\ calls[c].op = "login"
    /\ calls[c].pc = "done"
    /\ calls[c].res.user = Profile(S_ACTIVE)
    /\ calls[c].result.kind = "resolved"
    /\ user = Profile(S_ACTIVE)
    /\ storage = [user |-> Profile(S_ACTIVE), accessToken |-> "a1", refreshToken |-> "r1"]

\* C9: a login that fails changes nothing: a non-2xx answer rejects with
\* InvalidCredentials, a 2xx answer whose profile status is some spelling of
\* "disabled" rejects with AccountDisabled, and no step of such a login
\* changes the in-memory session or the persisted record.
C9_FailedLoginMutatesNothing ==
  [][\A c \in Slots :
       calls'[c] # calls[c] /\ calls'[c].op = "login"
         => LET res == calls'[c].res
                failed == ~res.rejected /\ res.status \notin 200..299
                disabled == /\ ~res.rejected
                            /\ res.status \in 200..299
                            /\ res.user \in {Profile(S_disabled), Profile(S_Disabled),
                                             Profile(S_DISABLED)}
            IN  /\ calls'[c].pc = "done" /\ failed
                  => calls'[c].result.kind = "InvalidCredentials" /\ SessionUnchanged
                /\ calls'[c].pc = "done" /\ disabled
                  => calls'[c].result.kind = "AccountDisabled" /\ SessionUnchanged
                /\ calls'[c].pc # "done" => SessionUnchanged]_vars

C9_Witness ==
  \E c \in Slots :
    /\ calls[c].op = "login"
    /\ calls[c].pc = "done"
    /\ calls[c].res.user = Profile(S_Disabled)
    /\ calls[c].result.kind = "AccountDisabled"
    /\ token = "a1"
    /\ storage # NoRecord

\* C10: a refreshToken() that fails returns false and changes nothing: with
\* no refresh token held it sends no request; after a rejected fetch, a
\* non-2xx answer or an answer without an access token it returns false; the
\* in-memory session and the persisted record stay as they were (no logout).
C10_FailedRefreshMutatesNothing ==
  [][\A c \in Slots :
       calls'[c] # calls[c] /\ calls'[c].op = "refreshToken"
         => /\ calls'[c].pc # "done" => SessionUnchanged
            /\ calls'[c].pc = "done" /\ RefreshFailed(calls'[c])
                 => /\ calls'[c].result.kind = "false"
                    /\ SessionUnchanged
                    /\ ~Present(calls'[c].cl.refreshTokenValue) => calls'[c].reqs = <<>>]_vars

C10_Witness ==
  \E c \in Slots :
    /\ calls[c].op = "refreshToken"
    /\ calls[c].pc = "done"
    /\ calls[c].refreshRes.status = 401
    /\ calls[c].result.kind = "false"
    /\ token = "a1"
    /\ refreshTokenValue = "r1"
    /\ storage # NoRecord

\* a refreshToken() that has just returned true: called on its own, or by a
\* fetchWithAuth that has sent its retry
JustRefreshed(call) ==
  \/ call.op = "refreshToken" /\ call.pc = "done" /\ ~RefreshFailed(call)
  \/ call.pc = "retry"
\* the refresh token the answer carries, else the one held before
RefreshAfter(call) ==
  IF call.refreshRes.refreshToken \in {NULL, UNDEF}
    THEN call.cl.refreshTokenValue
    ELSE call.refreshRes.refreshToken

\* C11: a refreshToken() answered 2xx with an access token returns true; the
\* access token in memory is the answer's (accessToken, else token), the
\* refresh token is the answer's when it carries one and the one held before
\* otherwise, the user is the one held before, and the persisted record
\* holds exactly this user, access token and refresh token.
C11_RefreshStoresTokens ==
  \A c \in Slots :
    JustRefreshed(calls[c])
      => LET call == calls[c]
         IN  /\ call.op = "refreshToken" => call.result.kind = "true"
             /\ token = ReturnedAccess(call.refreshRes)
             /\ Present(token)
             /\ refreshTokenValue = RefreshAfter(call)
             /\ user = call.cl.user
             /\ storage = [user |-> user, accessToken |-> token,
                           refreshToken |-> refreshTokenValue]

C11_Witness ==
  \E c \in Slots :
    /\ calls[c].op = "refreshToken"
    /\ calls[c].pc = "done"
    /\ calls[c].result.kind = "true"
    /\ calls[c].refreshRes.refreshToken = NULL
    /\ calls[c].refreshRes.accessToken = "a2"
    /\ token = "a2"
    /\ refreshTokenValue = "r1"
    /\ storage = [user |-> Profile(S_active), accessToken |-> "a2", refreshToken |-> "r1"]

\* the tokens a persisted record holds (the access token under accessToken,
\* else under the legacy property token)
StoredAccess(rec) == OrElse(Get(rec, "accessToken"), Get(rec, "token"))
StoredRefresh(rec) == Get(rec, "refreshToken")

\* C12: refreshUser() leaves the access token and the refresh token as they
\* are, in memory and in the persisted record: the step in which it returns
\* after a 2xx answer changes neither, also when the GET was answered 401 and
\* recovered by a refresh that rotated the refresh token (the record keeps
\* the refresh token that refresh stored); called without an access token it
\* sends no request and changes nothing.
C12_RefreshUserKeepsTokens ==
  [][\A c \in Slots :
       /\ calls'[c] # calls[c]
       /\ calls'[c].op = "refreshUser"
       /\ calls'[c].pc = "done"
       => /\ ~Present(calls'[c].cl.token)
               => calls'[c].reqs = <<>> /\ SessionUnchanged
          /\ calls'[c].result.kind = "resolved" /\ calls'[c].res.status \in 200..299
               => /\ token' = token
                  /\ refreshTokenValue' = refreshTokenValue
                  /\ StoredAccess(storage') = StoredAccess(storage)
                  /\ StoredRefresh(storage') = StoredRefresh(storage)]_vars

\* the step is a call of logout()
LogoutStep == nops' = nops + 1 /\ calls'[SyncSlot].op = "logout"

\* C13: logout() sends no request and starts no call; it leaves user, access
\* token and refresh token null and the persisted record absent, whatever
\* calls are in flight.  On a session that is already cleared it changes
\* nothing, so a second logout() right after a first one changes nothing.
C13_LogoutClears ==
  [][LogoutStep
       => /\ Cleared'
          /\ calls'[SyncSlot].reqs = <<>>
          /\ \A c \in Slots : calls'[c] = Live[c]
          /\ Cleared => SessionUnchanged
          /\ calls[SyncSlot].op = "logout" => SessionUnchanged]_vars

C13_Witness ==
  /\ calls[SyncSlot].op = "logout"
  /\ calls[SyncSlot].cl = [user |-> NoUser, token |-> NULL, refreshTokenValue |-> NULL]
  /\ nops = 2
  /\ Cleared

\* the mount effect has just run
JustLoaded == calls[SyncSlot].op = "load"

\* C14: the mount effect run on a record written by login, refreshToken or
\* refreshUser (a page reload) leaves in memory the user, the access token
\* and the refresh token that the record holds, a value left out of the
\* record being read back as null; a record that holds the access token
\* under the legacy property token loads to that access token.
C14_LoadRoundTrip ==
  JustLoaded /\ calls[SyncSlot].result.kind = "returned" /\ storage # NoRecord
    => /\ user = GetUser(storage)
       /\ Same(token, Get(storage, IF "accessToken" \in DOMAIN storage
                                     THEN "accessToken" ELSE "token"))
       /\ Same(refreshTokenValue, StoredRefresh(storage))
       /\ storage = LegacyRecord => token = "a1"

C14_Witness ==
  /\ JustLoaded
  /\ nops = 2
  /\ storage = [user |-> Profile(S_active), accessToken |-> "a2", refreshToken |-> "r2"]
  /\ user = Profile(S_active)
  /\ token = "a2"
  /\ refreshTokenValue = "r2"

\* C15: the mount effect raises no error whatever the persisted record
\* holds: with an absent or malformed record it completes normally and
\* leaves the in-memory state empty.
C15_LoadNeverThrows ==
  JustLoaded
    => /\ calls[SyncSlot].result.kind = "returned"
       /\ storage \in {NoRecord, Malformed} => loaded /\ MemEmpty

\* no token in memory and no persisted record
Unauthenticated == ~Present(token) /\ ~Present(refreshTokenValue) /\ storage = NoRecord

\* C16: once loaded, an unauthenticated session (no tokens, no record) gets
\* a token or a record only in the step in which a login resolves: the
\* completion of a refreshToken, refreshUser or fetchWithAuth that was in
\* flight when logout() ran sets no token and writes no record.
C16_OnlyLoginAuthenticates ==
  [][loaded /\ Unauthenticated /\ ~Unauthenticated'
       => \E c \in Slots :
            /\ calls[c].op = "login"
            /\ calls'[c].pc = "done"
            /\ calls'[c].result.kind = "resolved"]_vars

\* a fetchWithAuth call past a 401 on its first attempt, made with retry and
\* with a refresh token held
Recovering(call) ==
  /\ call.op = "fetchWithAuth"
  /\ call.first = 401
  /\ call.retry
  /\ Present(call.cl.refreshTokenValue)

\* C17: every fetchWithAuth call that got a 401 (with a refresh token held)
\* has sent its own request to the refresh endpoint, whatever other calls
\* are doing: two concurrent calls send two.  A call has sent its retry
\* exactly when its own refresh has succeeded.
C17_IndependentRefreshes ==
  \A c \in Slots :
    Recovering(calls[c])
      => /\ CountUrl(calls[c], RefreshUrl) = 1
         /\ CountTarget(calls[c]) = 2
              <=> calls[c].pc # "refresh" /\ ~RefreshFailed(calls[c])

C17_Witness ==
  \E c, d \in Slots :
    /\ c # d
    /\ Recovering(calls[c])
    /\ Recovering(calls[d])
    /\ calls[c].pc = "retry"
    /\ calls[d].pc = "refresh"
    /\ CountUrl(calls[c], RefreshUrl) = 1
    /\ CountUrl(calls[d], RefreshUrl) = 1

\* C18: a request to the refresh endpoint carries the refresh token that is
\* stored when the request is sent (if one is stored), also when another
\* call's refresh has stored a new one since the sending call began.
C18_RefreshPostsLatestToken ==
  [][\A c \in Slots :
       /\ calls'[c].pc = "refresh"
       /\ calls[c].pc # "refresh"
       /\ Present(refreshTokenValue)
       => calls'[c].reqs[Len(calls'[c].reqs)].body = <<refreshTokenValue>>]_vars

\* fetchAllLeads has returned its array
LeadsReturned == leadsPc = "done" /\ leadsResult.kind = "returned"
\* the items a page carries
ItemsOf(data) == IF data.bare \/ data.hasItems THEN data.items ELSE <<>>
RECURSIVE ConcatItems(_)
\* the items of the pages answered, in the order of the answers
ConcatItems(answers) ==
  IF answers = <<>> THEN <<>>
  ELSE ConcatItems(SubSeq(answers, 1, Len(answers) - 1))
         \o ItemsOf(answers[Len(answers)].data)
\* the page ends the sequence by the contract: a bare array, or a nextCursor
\* that is null or absent
TerminatingPage(data) == data.bare \/ data.nextCursor \in {NullCursor, UndefCursor}
\* the page ends the loop of the code: also a nextCursor of 0
StoppingPage(data) == TerminatingPage(data) \/ data.nextCursor = 0
\* the first page is requested without a cursor, every later page with the
\* nextCursor of the page before it; nothing is requested beyond the page
\* after the last answer
CursorChain ==
  /\ pageReqs[1].cursor = NullCursor
  /\ \A k \in 2..Len(pageReqs) : pageReqs[k].cursor = pageAnswers[k - 1].data.nextCursor
  /\ \A k \in DOMAIN pageReqs : pageReqs[k].take = Take
  /\ ~USE_MOCK_DATA
       => /\ Len(netReqs) = Len(pageReqs)
          /\ netReqs[1].cursor = UndefCursor
          /\ \A k \in 2..Len(netReqs) : netReqs[k].cursor = pageReqs[k].cursor

C20_AtMostMaxPagesRequests == leadsPc # "idle" => Len(pageReqs) <= maxPages

\* C23: with a backend that rotates refresh tokens, a fetchWithAuth call
\* whose refresh is rejected because another fetchWithAuth call's refresh
\* has used the token and stored its successor does not clear the session
\* (the other call has sent its retry and goes on to return): the step in
\* which that call returns leaves the tokens of the successful refresh in
\* memory and in the persisted record.
C23_RotationKeepsSession ==
  [][\A c \in Slots :
       /\ calls[c].op = "fetchWithAuth"
       /\ calls[c].pc = "refresh"
       /\ calls'[c].pc = "done"
       /\ calls'[c].refreshRes.status = 401
       /\ storage # NoRecord
       /\ Present(refreshTokenValue)
       /\ refreshTokenValue # calls[c].cl.refreshTokenValue
       /\ StoredRefresh(storage) = refreshTokenValue
       /\ \E d \in Slots \ {c} :
            /\ calls[d].op = "fetchWithAuth"
            /\ calls[d].pc = "retry"
            /\ calls[d].cl.refreshTokenValue = calls[c].cl.refreshTokenValue
            /\ calls[d].refreshRes.refreshToken = refreshTokenValue
       => SessionUnchanged]_vars

\* C24: whatever calls overlap, a step that writes the persisted record
\* writes the user, access token and refresh token that memory holds after
\* the step: no call that completes late writes a value captured before
\* another call changed it (steps of refreshUser, the subject of C7 and
\* C12, left aside).
C24_WritesAgreeWithMemory ==
  [][/\ storage' # storage
     /\ storage' # NoRecord
     /\ \A c \in Slots : calls'[c].op # "refreshUser"
     => /\ GetUser(storage') = user'
        /\ Same(Get(storage', "accessToken"), token')
        /\ Same(Get(storage', "refreshToken"), refreshTokenValue')]_vars

\* C25: in every state the in-memory user is non-null exactly when an
\* access token is held; in particular a login that resolves leaves an
\* access token, also when the 2xx answer carries neither accessToken nor
\* token.
C25_UserIffToken == (user # NoUser) <=> Present(token)

\* C28: when the answer to a page request, the first or a later one, is not
\* ok, fetchAllLeads rejects with 'Failed to load leads': that answer is the
\* last one, no page is requested after it, and no items are returned, not
\* even those of the pages fetched before.
C28_AllOrNothing ==
  \A k \in DOMAIN pageAnswers :
    ~pageAnswers[k].rejected /\ ~pageAnswers[k].ok
      => /\ k = Len(pageAnswers)
         /\ Len(pageReqs) = k
         /\ leadsPc = "done"
         /\ leadsResult = [kind |-> "FailedToLoadLeads", leads |-> <<>>]

C28_Witness ==
  /\ Len(pageAnswers) = 2
  /\ pageAnswers[1] = Answer(FALSE, TRUE, PageObject(TRUE, <<12, 13>>, 1))
  /\ ~pageAnswers[2].ok
  /\ ~pageAnswers[2].rejected
  /\ allLeads = <<12, 13>>
  /\ leadsResult = [kind |-> "FailedToLoadLeads", leads |-> <<>>]

\* the leads lead-1 .. lead-n in order
LeadsUpTo(n) == [i \in 1..n |-> i]

\* C29: with the mock data, the pages got by following the cursors from
\* null with a page size of at least 1 are consecutive slices of the 690
\* leads: each page starts where the one before ended, its nextCursor is
\* greater than the cursor requested, and is null exactly on the page that
\* reaches lead 690; the walk ends with leads 1..690 in order, each once,
\* and fetchAllLeads() returns them after 7 page requests.
C29_MockSlices ==
  /\ \A k \in DOMAIN pageAnswers :
       LET req == pageReqs[k]
           data == pageAnswers[k].data
           start == IF req.cursor = NullCursor THEN 0 ELSE req.cursor
           end == start + Len(data.items)
       IN  /\ req.take >= 1
           /\ Len(data.items) >= 1
           /\ data.items = [i \in 1..Len(data.items) |-> start + i]
           /\ data.nextCursor = NullCursor <=> end = 690
           /\ data.nextCursor # NullCursor
                => data.nextCursor > start /\ data.nextCursor = end
           /\ k > 1 => req.cursor = pageAnswers[k - 1].data.nextCursor
  /\ leadsPc = "done" => allLeads = LeadsUpTo(690)
  /\ LeadsReturned => leadsResult.leads = LeadsUpTo(690) /\ Len(pageReqs) = 7

C29_Witness ==
  /\ leadsPc = "done"
  /\ leadsResult.kind = "none"
  /\ pageReqs[1].take = 3
  /\ Len(pageReqs) = 230
  /\ allLeads = LeadsUpTo(690)

\* ------------------------------------------------ dashboard components
\* load() number id awaits a follow-up page of the loop
AwaitsFollowUp(id) == loads[id].pc = "next"
\* the follow-up page requests load() number id has made
FollowUps(id) == IF loads[id].reqs = 0 THEN 0 ELSE loads[id].reqs - 1
\* the page answers load() number id has read
PagesRead(id) ==
  IF loads[id].pc \in {"first", "next"} THEN loads[id].reqs - 1 ELSE loads[id].reqs
\* load() number id reached the end of its try block
Completed(id) == loads[id].pc = "done"

\* C21: the lead-loading loop ends as soon as a page carries a null or
\* absent next pointer or is a bare array: no follow-up page is requested
\* after such a page, whether it is the first page or a later one.
C21_LoopEndsAtTerminatingPage ==
  \A id \in LoadIds : AwaitsFollowUp(id) => ~TerminatingPage(loads[id].data)

\* C22: once the cleanup of the effect has set cancelled, no completion of a
\* load(), successful or failed, writes the component's data state.
C22_CancelledLoadWritesNothing ==
  [][cancelled => dataState' = dataState]_vars

\* C26: in a polling component that is still mounted, once all the load()
\* calls started (two or more) have reached the end of their try block, the
\* data shown is the result of the one that started last.
C26_LastStartedLoadWins ==
  (/\ Polls(component)
   /\ ~cancelled
   /\ nloads >= 2
   /\ \A id \in 1..nloads : Completed(id))
    => dataState.by = nloads

\* C27 as stated: with pages of at most 100 items a load() never holds more
\* than 1099 leads and makes at most 10 follow-up page requests.
C27_AtMostTenFollowUps ==
  /\ dataState.items <= 1099
  /\ \A id \in LoadIds : loads[id].allLeads <= 1099 /\ FollowUps(id) <= 10

\* C27: the loop requests a further page only while the cursor is not null
\* and fewer than 1000 leads are accumulated, so with pages of at most 100
\* items a load() never holds more than 1099 leads; when every page read has
\* added 100 leads it makes at most 9 follow-up page requests.
C27_LeadsBoundedByCeiling ==
  /\ dataState.items <= 1099
  /\ \A id \in LoadIds :
       /\ loads[id].allLeads <= 1099
       /\ AwaitsFollowUp(id)
            => loads[id].cursor # NullCursor /\ loads[id].allLeads < LeadCeiling
       /\ loads[id].allLeads = PageTake * PagesRead(id) => FollowUps(id) <= 9

C27_Witness ==
  \E id \in LoadIds :
    /\ component = "DashboardStats"
    /\ Completed(id)
    /\ dataState = [by |-> id, users |-> 0, items |-> 1099]

\* ------------------------------------------- the visa-status breakdown
\* the category VISA_STATUS_MAP names for a lead
MappedCategory(lead) ==
  IF lead.hasId /\ lead.visastatusid \in VisaStatusIds
    THEN VISA_STATUS_MAP(lead.visastatusid)
    ELSE Unknown
\* the leads visaData counts under a category
CountedUnder(visaType) ==
  IF \E k \in DOMAIN visaData.rows : visaData.rows[k].visaType = visaType
    THEN visaData.rows[CHOOSE k \in DOMAIN visaData.rows :
                         visaData.rows[k].visaType = visaType].leads
    ELSE 0

\* C30: in the computed breakdown every category of visaOrder counts
\* exactly the filtered leads whose visastatusid VISA_STATUS_MAP maps to it
\* (ids 1..6 to their names, any other or missing id to 'Unknown').
C30_CountedUnderMappedCategory ==
  visaData.computed =>
    \A k \in DOMAIN visaOrder :
      CountedUnder(visaOrder[k]) =
        Cardinality({i \in DOMAIN filteredLeads :
                       MappedCategory(filteredLeads[i]) = visaOrder[k]})
====
